---- MODULE Spec2Model ----
(***************************************************************************)
(* A model of clash-ip-checker's evaluation pipeline, process_proxies in   *)
(* src/clash_automator.py: Phase 1 (concurrent delay probes behind a       *)
(* semaphore), Phase 1.5 (serial exit-IP pre-check and source-aware        *)
(* deduplication), grouping by exit IP, Phase 2 (one classification per    *)
(* group, propagated to its members) and the save step; and of the         *)
(* classifier of src/ipcheck.py: get_emoji, get_simple_ip and check() with *)
(* its cache, each under a specification of its own (EmojiSpec,            *)
(* LookupSpec, CheckerSpec).                                               *)
(*                                                                         *)
(* Node names are sequences of characters; a non-ASCII character of the    *)
(* source is written as its pinyin syllable ("dao","qi" for the keyword at *)
(* line 94), and the bracketed tags are written in ASCII.  A proxy dict is *)
(* referred to by its index in config_data['proxies'], which is its object *)
(* identity: the lists of the code hold references to the same dicts.      *)
(***************************************************************************)
EXTENDS Integers, Sequences, FiniteSets

\* ------------------------------------------------------------------ bounds
MaxNodes == 3
\* The longest node list of the fan-out by numbers, and the most excluded
\* nodes in it
MaxFanout == 52
MaxFanoutExcluded == 1
\* The longest percentage string handed to get_emoji
MaxPctLen == 4
\* The most calls of check() made on one IPChecker
MaxChecks == 2

\* --------------------------------------------------------------- constants
\* asyncio.Semaphore(50)
SemaphoreValue == 50
\* check(..., retry=2)
DefaultRetry == 2

\* The values cfg.get('selector_name', "GLOBAL") takes: the default, and the
\* name of a selector group of the user's configuration
SelectorNames == { "GLOBAL", "MyGroup" }

None == "None"
Missing == "Missing"

\* SKIP_KEYWORDS, one syllable per character
SKIP_KEYWORDS ==
  { <<"sheng", "yu">>, <<"chong", "zhi">>, <<"dao", "qi">>,
    <<"you", "xiao", "qi">>, <<"guan", "wang">>, <<"wang", "zhi">>,
    <<"geng", "xin">>, <<"gong", "gao">> }

\* The node names of the inputs: three ordinary names, and one that holds the
\* keyword "dao qi" as a substring (not as a prefix).
PlainNames == << <<"H", "K">>, <<"J", "P">>, <<"U", "S">> >>
KeywordName == <<"H", "dao", "qi">>
NamePool == { PlainNames[k] : k \in 1..Len(PlainNames) } \cup { KeywordName }

\* proxy['_source'] as download_sub.py writes it
Sources == << "Sub-1", "Sub-2" >>
SourcePool == { Sources[k] : k \in 1..Len(Sources) }

\* Exit addresses get_simple_ip can report
IpPool == { "10.0.0.11", "10.0.0.22" }

\* A tag is a sequence of characters: "[" and "]" are the brackets of the
\* source's tags, and a run of other characters is written as one element.
\* The tag of a node whose address or classification is not known
UnknownTag == << "[", "??", " ", "wei zhi", "]" >>
\* check()'s full_string on a failure of the page
ErrorTag == << "[", "X Error", "]" >>
\* result['full_string'] values check() returns
TagPool == { << "[", "white", "orange", " ", "ji", "|", "guang", "]" >>, ErrorTag }

\* A dict of names or tags has no such key
Absent == << "absent" >>

\* An optional integer is a sequence of at most one number: << >> is Python's
\* None (or an absent JSON field), << d >> is the integer d.
NoInt == << >>
\* No proxy: the None of a gather slot, a key ip_to_proxy does not hold.
NoProxy == 0

\* What GET /proxies/{name}/delay can produce: a transport error, a status
\* other than 200, or a 200 body whose 'delay' field is absent, 0 or positive.
DelayResponses ==
  { [kind |-> "error"], [kind |-> "status", status |-> 503],
    [kind |-> "status", status |-> 200, body |-> << >>],
    [kind |-> "status", status |-> 200, body |-> << 0 >>],
    [kind |-> "status", status |-> 200, body |-> << 87 >>] }

VARIABLES
  proxies,        \* config_data['proxies']: sequence of [name, source]
  pc,             \* position of process_proxies
  task,           \* check_node task i: "created", "inflight", "done"
  delay,          \* what get_proxy_delay returned to task i (kept as history
                  \* of Phase 1 until Phase 1.5 begins)
  finished,       \* history of Phase 1: the probed tasks in completion order
  results,        \* slot i of asyncio.gather's result: i (the proxy) or NoProxy
  sem,            \* semaphore._value
  valid_proxies,  \* indices, in list order
  selector_to_use,
  idx15,          \* position of the Phase 1.5 loop in valid_proxies
  ip_to_proxy,    \* ip -> index of the owning proxy, or NoProxy (no key)
  unique_proxies, \* indices, in list order
  node_ip_map,    \* name -> ip, None, or Missing (no key)
  results_map,    \* name -> tag, or Absent (no key)
  ip_groups,      \* insertion-ordered dict: sequence of [ip, members]
  idx2,           \* position of the Phase 2 loop in ip_list
  probeCalls,     \* history: number of get_proxy_delay calls per index
  ipAt,           \* history: what get_simple_ip returned in proxy i's iteration
  p2switch,       \* history: indices Phase 2 switched to, in order
  p2check,        \* history: indices check() was called for, in order
  final_proxies,  \* sequence of [node, name]: the saved node list
  name_mapping,   \* old name -> new name, or Absent (no key)
  written,        \* the output file has been written
  proxy_groups,   \* config_data['proxy-groups']: the member names of each group
  v2rayn_links,   \* the names the link file carries, in order
  modeCalls,      \* history: number of set_mode calls
  switchCalls,    \* history: number of switch_proxy calls
  SELECTOR_NAME,  \* cfg.get('selector_name', "GLOBAL"), read at import
  events,         \* history: the requests of Phases 1.5 and 2 in the order
                  \* the coroutine makes them: see Event
  fan,            \* Phase 1 by numbers of tasks, for lists too long to follow
                  \* task by task: see FanoutInit
  emo,            \* one application of get_emoji: see EmojiInit
  look,           \* one call of get_simple_ip: see LookupInit
  chk             \* an IPChecker and its calls of check(): see CheckerInit

vars == << proxies, pc, task, delay, finished, results, sem, valid_proxies,
           selector_to_use, idx15, ip_to_proxy, unique_proxies, node_ip_map,
           results_map, ip_groups, idx2, probeCalls, ipAt, p2switch, p2check,
           final_proxies, name_mapping, written, proxy_groups, v2rayn_links,
           modeCalls, switchCalls, SELECTOR_NAME, events, fan, emo, look, chk >>

\* ---------------------------------------------------------------- helpers
N == Len(proxies)
Nodes == 1..N
NameOf(i) == proxies[i].name
\* proxy.get('_source', 'Unknown'); every node of the inputs carries the key
SourceOf(i) == proxies[i].source

\* Python's `kw in name` for strings: kw occurs as a contiguous substring.
IsSubstring(kw, name) ==
  \E s \in 1..(Len(name) - Len(kw) + 1) :
     \A k \in 1..Len(kw) : name[s + k - 1] = kw[k]

\* text.startswith(prefix)
IsPrefix(kw, name) ==
  /\ Len(kw) <= Len(name)
  /\ \A k \in 1..Len(kw) : name[k] = kw[k]

MatchesKeywordAsPrefix(name) == \E kw \in SKIP_KEYWORDS : IsPrefix(kw, name)

\* for kw in SKIP_KEYWORDS: if kw in name: return None
MatchesKeyword(name) == \E kw \in SKIP_KEYWORDS : IsSubstring(kw, name)

\* ClashController.get_proxy_delay: data.get('delay') on 200, else None
GetProxyDelay(resp) ==
  IF resp.kind = "error" THEN NoInt
  ELSE IF resp.status = 200 THEN resp.body ELSE NoInt

TruthyNotNone(d) == d # NoInt

\* Python truthiness of the value get_proxy_delay returns (`if delay:`)
Truthy(d) == d # NoInt /\ d[1] # 0

RECURSIVE FilterNotNoneReversed(_, _)
FilterNotNoneReversed(res, k) ==
  IF k = 0 THEN << >>
  ELSE IF res[k] = NoProxy THEN FilterNotNoneReversed(res, k - 1)
       ELSE << res[k] >> \o FilterNotNoneReversed(res, k - 1)

\* [p for p in results if p is not None] over slots 1..k, in slot order
RECURSIVE FilterNotNone(_, _)
FilterNotNone(res, k) ==
  IF k = 0 THEN << >>
  ELSE IF res[k] = NoProxy THEN FilterNotNone(res, k - 1)
       ELSE Append(FilterNotNone(res, k - 1), res[k])

\* async with semaphore: the task passes when the value is positive and
\* waits otherwise
NeverBlocks(value) == TRUE

CanAcquire(value) == value > 0

\* ------------------------------------------------------------------- Init
\* The variables of the other specifications, at rest
NoEmoji == [at |-> "idle"]
NoLookup == [at |-> "idle"]
NoChecker == [at |-> "idle"]
sidevars == << fan, emo, look, chk >>

NoFanout == [plain |-> 0, excluded |-> 0, created |-> 0, createdExcluded |-> 0,
             inflight |-> 0, done |-> 0, sem |-> 0, probes |-> 0, peak |-> 0]

\* The node lists of the inputs.  The program compares ordinary names and
\* source tags only for equality, so of the lists that differ by a renaming of
\* the ordinary names or of the sources one is taken: the one whose names and
\* sources first occur in the order of PlainNames and Sources.
FirstOccurrenceOrder(q, field, order) ==
  \A i \in 1..Len(q) : \A k \in 2..Len(order) :
     q[i][field] = order[k] => \E j \in 1..(i - 1) : q[j][field] = order[k - 1]

NodeSeqs ==
  { q \in UNION { [1..n -> [name : NamePool, source : SourcePool]] :
                    n \in 1..MaxNodes } :
      /\ FirstOccurrenceOrder(q, "name", PlainNames)
      /\ FirstOccurrenceOrder(q, "source", Sources) }

Init ==
  /\ proxies \in NodeSeqs
  /\ pc = "phase1"
  /\ task = [i \in 1..Len(proxies) |-> "created"]
  /\ delay = [i \in 1..Len(proxies) |-> NoInt]
  /\ finished = << >>
  /\ results = [i \in 1..Len(proxies) |-> NoProxy]
  /\ sem = SemaphoreValue
  /\ valid_proxies = << >>
  /\ selector_to_use = Missing
  /\ idx15 = 1
  /\ ip_to_proxy = [ip \in IpPool |-> NoProxy]
  /\ unique_proxies = << >>
  /\ node_ip_map = [n \in NamePool |-> Missing]
  /\ results_map = [n \in NamePool |-> Absent]
  /\ ip_groups = << >>
  /\ idx2 = 1
  /\ probeCalls = [i \in 1..Len(proxies) |-> 0]
  /\ ipAt = [i \in 1..Len(proxies) |-> Missing]
  /\ p2switch = << >>
  /\ p2check = << >>
  /\ final_proxies = << >>
  /\ name_mapping = [n \in NamePool |-> Absent]
  /\ written = FALSE
  /\ proxy_groups = << [i \in 1..Len(proxies) |-> proxies[i].name] >>
  /\ v2rayn_links = << >>
  /\ modeCalls = 0
  /\ switchCalls = 0
  /\ SELECTOR_NAME \in SelectorNames
  /\ events = << >>
  /\ fan = NoFanout
  /\ emo = NoEmoji
  /\ look = NoLookup
  /\ chk = NoChecker

\* ---------------------------------------------------------------- Phase 1
phase15vars == << selector_to_use, idx15, ip_to_proxy, unique_proxies,
                  node_ip_map, ipAt >>
phase2vars == << results_map, ip_groups, idx2, p2switch, p2check >>
savevars == << final_proxies, name_mapping, written, proxy_groups, v2rayn_links >>
callvars == << modeCalls, switchCalls, SELECTOR_NAME, events >>

\* One request of the coroutine, as the history keeps it: the PUT of
\* switch_proxy ("put") and its answer ("status", ok when it is 204), a settle
\* sleep, a get_simple_ip lookup, a check() call (ok when it returned).
Event(op, selector, p, ok) ==
  [op |-> op, selector |-> selector, node |-> p, ok |-> ok]

\* await controller.switch_proxy(selector, name): the request, then its answer
SwitchProxy(selector, p, ok) ==
  << Event("put", selector, p, TRUE), Event("status", selector, p, ok) >>

ReadAtOnce(p, read, ok) == << Event(read, "", p, ok) >>

\* await asyncio.sleep(...), then the awaited lookup or check
SettleThenRead(p, read, ok) ==
  << Event("sleep", "", p, TRUE), Event(read, "", p, ok) >>

GatherAtOnce(t) == TRUE

\* await asyncio.gather(*tasks) returns when every task is done
GatherReady(t) == \A i \in DOMAIN t : t[i] = "done"

\* check_node(proxy) up to its first suspension: the keyword filter returns
\* None without a request; otherwise the task enters the semaphore (it waits
\* while the value is 0) and issues get_proxy_delay.
StartCheckNode(i) ==
  /\ pc = "phase1"
  /\ task[i] = "created"
  /\ IF MatchesKeyword(NameOf(i))
     THEN /\ task' = [task EXCEPT ![i] = "done"]
          /\ UNCHANGED << sem, probeCalls >>
     ELSE /\ CanAcquire(sem)
          /\ sem' = sem - 1
          /\ task' = [task EXCEPT ![i] = "inflight"]
          /\ probeCalls' = [probeCalls EXCEPT ![i] = @ + 1]
  /\ UNCHANGED << proxies, pc, delay, finished, results, valid_proxies >>
  /\ UNCHANGED phase15vars
  /\ UNCHANGED phase2vars
  /\ UNCHANGED savevars
  /\ UNCHANGED callvars
  /\ UNCHANGED sidevars

\* delay = await controller.get_proxy_delay(name); if delay: return proxy,
\* else return None; leaving `async with` releases the semaphore.  Nothing
\* is awaited between the return of get_proxy_delay and the return of
\* check_node, so the step is atomic.
ProbeReturns(i) ==
  /\ pc = "phase1"
  /\ task[i] = "inflight"
  /\ \E resp \in DelayResponses :
       /\ delay' = [delay EXCEPT ![i] = GetProxyDelay(resp)]
       /\ results' = [results EXCEPT
                        ![i] = IF Truthy(GetProxyDelay(resp)) THEN i ELSE NoProxy]
  /\ sem' = sem + 1
  /\ task' = [task EXCEPT ![i] = "done"]
  /\ finished' = Append(finished, i)
  /\ UNCHANGED << proxies, pc, valid_proxies, probeCalls >>
  /\ UNCHANGED phase15vars
  /\ UNCHANGED phase2vars
  /\ UNCHANGED savevars
  /\ UNCHANGED callvars
  /\ UNCHANGED sidevars

NeverEmpty(list) == FALSE

\* `not valid_proxies`: the list is empty
IsEmpty(list) == list = << >>

\* results = await asyncio.gather(*tasks); valid_proxies = [...];
\* if not valid_proxies: return
Gather ==
  /\ pc = "phase1"
  /\ GatherReady(task)
  /\ valid_proxies' = FilterNotNone(results, N)
  /\ pc' = IF IsEmpty(valid_proxies') THEN "done" ELSE "setmode"
  /\ UNCHANGED << proxies, task, delay, finished, results, sem, probeCalls >>
  /\ UNCHANGED phase15vars
  /\ UNCHANGED phase2vars
  /\ UNCHANGED savevars
  /\ UNCHANGED callvars
  /\ UNCHANGED sidevars

\* -------------------------------------------------------------- Phase 1.5
phase1vars == << task, delay, finished, results, sem, probeCalls >>

\* await controller.set_mode("global") (its result is not read), then the
\* GET /configs that picks the local proxy port for the lookups.
SetMode ==
  /\ pc = "setmode"
  /\ pc' = "selector"
  /\ delay' = [i \in Nodes |-> NoInt]
  /\ finished' = << >>
  /\ modeCalls' = modeCalls + 1
  /\ UNCHANGED << switchCalls, SELECTOR_NAME, events >>
  /\ UNCHANGED << proxies, valid_proxies, task, results, sem, probeCalls >>
  /\ UNCHANGED phase15vars
  /\ UNCHANGED phase2vars
  /\ UNCHANGED savevars
  /\ UNCHANGED sidevars

\* selector_to_use = SELECTOR_NAME;
\* if not await controller.switch_proxy("GLOBAL", valid_proxies[0]['name']):
\*     selector_to_use = "Proxy"
ProbeSelector ==
  /\ pc = "selector"
  /\ \E ok \in BOOLEAN :
       /\ selector_to_use' = IF ok THEN SELECTOR_NAME ELSE "Proxy"
       /\ events' = events \o SwitchProxy("GLOBAL", valid_proxies[1], ok)
  /\ pc' = "phase15"
  /\ switchCalls' = switchCalls + 1
  /\ UNCHANGED << modeCalls, SELECTOR_NAME >>
  /\ UNCHANGED << proxies, valid_proxies, idx15, ip_to_proxy, unique_proxies,
                  node_ip_map, ipAt >>
  /\ UNCHANGED phase1vars
  /\ UNCHANGED phase2vars
  /\ UNCHANGED savevars
  /\ UNCHANGED sidevars

KeepNodeAnySource(p, ip, owners) == TRUE

KeepNodeFirstOnly(p, ip, owners) == ip = None \/ owners[ip] = NoProxy

\* The dedup decision of one iteration, for the address the lookup returned:
\* kept when the address is unknown, new, or owned by a node of the same source.
KeepNode(p, ip, owners) ==
  IF ip # None
  THEN IF owners[ip] = NoProxy
       THEN TRUE
       ELSE SourceOf(owners[ip]) = SourceOf(p)
  ELSE TRUE

\* One iteration of `for i, proxy in enumerate(valid_proxies)`: the switch,
\* and when it succeeds the settle sleep, the lookup and the dedup decision.
Phase15Step ==
  /\ pc = "phase15"
  /\ idx15 <= Len(valid_proxies)
  /\ LET p == valid_proxies[idx15]
         name == NameOf(p)
     IN \/ \* switch_proxy returned False: keep the node, continue
           /\ events' = events \o SwitchProxy(selector_to_use, p, FALSE)
           /\ unique_proxies' = Append(unique_proxies, p)
           /\ UNCHANGED << ip_to_proxy, node_ip_map, ipAt >>
        \/ \E ip \in IpPool \cup {None} :
             /\ events' = events \o SwitchProxy(selector_to_use, p, TRUE)
                                 \o SettleThenRead(p, "lookup", TRUE)
             /\ node_ip_map' = [node_ip_map EXCEPT ![name] = ip]
             /\ ipAt' = [ipAt EXCEPT ![p] = ip]
             /\ ip_to_proxy' =
                  IF ip # None /\ ip_to_proxy[ip] = NoProxy
                  THEN [ip_to_proxy EXCEPT ![ip] = p]
                  ELSE ip_to_proxy
             /\ unique_proxies' =
                  IF KeepNode(p, ip, ip_to_proxy)
                  THEN Append(unique_proxies, p)
                  ELSE unique_proxies
  /\ idx15' = idx15 + 1
  /\ switchCalls' = switchCalls + 1
  /\ UNCHANGED << modeCalls, SELECTOR_NAME >>
  /\ UNCHANGED << proxies, pc, valid_proxies, selector_to_use >>
  /\ UNCHANGED phase1vars
  /\ UNCHANGED phase2vars
  /\ UNCHANGED savevars
  /\ UNCHANGED sidevars

\* --------------------------------------------------------------- grouping
KnownIpNotMissing(map, name) == map[name] # Missing

KnownIpNotNone(map, name) == map[name] # None

\* node_ip_map.get(name) followed by `if ip:`: the address, when the key is
\* there and holds one
KnownIp(map, name) == map[name] # Missing /\ map[name] # None

\* The position of key ip in the insertion-ordered dict, 0 when absent
GroupIndex(groups, ip) ==
  IF \E g \in 1..Len(groups) : groups[g].ip = ip
  THEN CHOOSE g \in 1..Len(groups) : groups[g].ip = ip
  ELSE 0

AddToGroupFront(groups, ip, p) ==
  LET g == GroupIndex(groups, ip)
  IN IF g = 0
     THEN << [ip |-> ip, members |-> << p >>] >> \o groups
     ELSE [groups EXCEPT ![g].members = << p >> \o @]

\* ip_groups.setdefault(ip, []).append(proxy)
AddToGroup(groups, ip, p) ==
  LET g == GroupIndex(groups, ip)
  IN IF g = 0
     THEN Append(groups, [ip |-> ip, members |-> << p >>])
     ELSE [groups EXCEPT ![g].members = Append(@, p)]

\* The loop `for proxy in unique_proxies` over its first k entries, from an
\* empty results_map and ip_groups.
RECURSIVE GroupLoop(_, _, _)
GroupLoop(unique, map, k) ==
  IF k = 0
  THEN [rm |-> [n \in NamePool |-> Absent], groups |-> << >>]
  ELSE LET prev == GroupLoop(unique, map, k - 1)
           p == unique[k]
           name == NameOf(p)
       IN IF KnownIp(map, name)
          THEN [rm |-> prev.rm,
                groups |-> AddToGroup(prev.groups, map[name], p)]
          ELSE [rm |-> [prev.rm EXCEPT ![name] = UnknownTag],
                groups |-> prev.groups]

\* temp_checker.stop(), then the grouping loop and checker.start()
BuildGroups ==
  /\ pc = "phase15"
  /\ idx15 > Len(valid_proxies)
  /\ LET r == GroupLoop(unique_proxies, node_ip_map, Len(unique_proxies))
     IN /\ results_map' = r.rm
        /\ ip_groups' = r.groups
  /\ pc' = "phase2"
  /\ UNCHANGED << proxies, valid_proxies, idx2, p2switch, p2check >>
  /\ UNCHANGED phase1vars
  /\ UNCHANGED phase15vars
  /\ UNCHANGED savevars
  /\ UNCHANGED callvars
  /\ UNCHANGED sidevars

\* ---------------------------------------------------------------- Phase 2
LastMember(group) == group[Len(group)]

\* representative = group[0]
Representative(group) == group[1]

PropagateToRepresentative(rm, members, result) ==
  [rm EXCEPT ![NameOf(members[1])] = result]

\* for proxy in group: results_map[proxy['name']] = result
Propagate(rm, members, result) ==
  [n \in NamePool |->
     IF \E k \in 1..Len(members) : NameOf(members[k]) = n
     THEN result ELSE rm[n]]

\* One iteration of `for i, ip in enumerate(ip_list)`: switch to the
\* representative; on failure the group is unknown, otherwise check() is
\* called and its full_string, or the unknown tag when it raises, is the
\* result; the result goes to every member.
Phase2Step ==
  /\ pc = "phase2"
  /\ idx2 <= Len(ip_groups)
  /\ LET group == ip_groups[idx2].members
         representative == Representative(group)
     IN /\ p2switch' = Append(p2switch, representative)
        /\ \/ \* switch_proxy returned False
              /\ events' = events
                             \o SwitchProxy(selector_to_use, representative, FALSE)
              /\ results_map' = Propagate(results_map, group, UnknownTag)
              /\ UNCHANGED p2check
           \/ \* check() returned a result
              /\ events' = events
                             \o SwitchProxy(selector_to_use, representative, TRUE)
                             \o SettleThenRead(representative, "check", TRUE)
              /\ \E full_string \in TagPool :
                   results_map' = Propagate(results_map, group, full_string)
              /\ p2check' = Append(p2check, representative)
           \/ \* check() raised
              /\ events' = events
                             \o SwitchProxy(selector_to_use, representative, TRUE)
                             \o SettleThenRead(representative, "check", FALSE)
              /\ results_map' = Propagate(results_map, group, UnknownTag)
              /\ p2check' = Append(p2check, representative)
  /\ idx2' = idx2 + 1
  /\ switchCalls' = switchCalls + 1
  /\ UNCHANGED << modeCalls, SELECTOR_NAME >>
  /\ UNCHANGED << proxies, pc, valid_proxies, ip_groups >>
  /\ UNCHANGED phase1vars
  /\ UNCHANGED phase15vars
  /\ UNCHANGED savevars
  /\ UNCHANGED sidevars

\* The user interrupts the run while the Phase 2 loop has iterations left (the
\* loop spends its time suspended in the awaits of an iteration; results_map
\* is written only after them, so the variables are those of the iteration
\* boundary).  The program is run by asyncio.run (line 601).  A
\* KeyboardInterrupt raised inside the coroutine's own code is caught by
\* `except KeyboardInterrupt`: the loop stops, checker.stop() runs and the
\* save step follows.  An interrupt that reaches the coroutine as the
\* cancellation of its task (asyncio.run cancels the main task on SIGINT, and
\* on the way out after a KeyboardInterrupt raised in the event loop itself)
\* raises CancelledError at the pending await: the except clause does not
\* match it, checker.stop() runs in the finally clause and process_proxies
\* is left with the exception.
Interrupt ==
  /\ pc = "phase2"
  /\ idx2 <= Len(ip_groups)
  /\ \E caught \in BOOLEAN :
       pc' = IF caught THEN "interrupted" ELSE "cancelled"
  /\ UNCHANGED << proxies, valid_proxies >>
  /\ UNCHANGED phase1vars
  /\ UNCHANGED phase15vars
  /\ UNCHANGED phase2vars
  /\ UNCHANGED savevars
  /\ UNCHANGED callvars
  /\ UNCHANGED sidevars

\* ------------------------------------------------------------------- save
\* re.search('[' + '([^\]]+)' + ']', tag): the leftmost "[" that is followed
\* by one or more characters other than "]" and then a "]"; the result is the
\* matched text, brackets included, or Absent.
BracketPrefix(tag) ==
  LET opens == { a \in 1..Len(tag) :
                   /\ tag[a] = "["
                   /\ a + 1 <= Len(tag) /\ tag[a + 1] # "]"
                   /\ \E b \in (a + 2)..Len(tag) : tag[b] = "]" }
  IN IF opens = {} THEN Absent
     ELSE LET a == CHOOSE x \in opens : \A y \in opens : x <= y
              b == CHOOSE x \in (a + 2)..Len(tag) :
                     tag[x] = "]" /\ \A y \in (a + 2)..(x - 1) : tag[y] # "]"
          IN SubSeq(tag, a, b)

NewNameAppended(old_name, result_suffix) ==
  old_name \o << " " >> \o result_suffix

\* new_name: the bracket prefix before the old name, or without a bracket in
\* the tag the old name, a space and the tag
NewName(old_name, result_suffix) ==
  IF BracketPrefix(result_suffix) # Absent
  THEN BracketPrefix(result_suffix) \o old_name
  ELSE old_name \o << " " >> \o result_suffix

\* for proxy in valid_proxies, over its first k entries: a node whose name is
\* a key of results_map is renamed and enters name_mapping; every node enters
\* final_proxies.
RECURSIVE SaveLoop(_, _, _)
SaveLoop(valid, rm, k) ==
  IF k = 0
  THEN [final |-> << >>, mapping |-> [n \in NamePool |-> Absent]]
  ELSE LET prev == SaveLoop(valid, rm, k - 1)
           p == valid[k]
           old_name == NameOf(p)
       IN IF rm[old_name] # Absent
          THEN [final |-> Append(prev.final,
                            [node |-> p, name |-> NewName(old_name, rm[old_name])]),
                mapping |-> [prev.mapping EXCEPT
                               ![old_name] = NewName(old_name, rm[old_name])]]
          ELSE [final |-> Append(prev.final, [node |-> p, name |-> old_name]),
                mapping |-> prev.mapping]

\* The rewrite of one group['proxies']: a member that is a key of
\* name_mapping is replaced by its new name, any other member is left out.
RECURSIVE RewriteGroup(_, _, _)
RewriteGroup(members, mapping, k) ==
  IF k = 0 THEN << >>
  ELSE IF mapping[members[k]] # Absent
       THEN Append(RewriteGroup(members, mapping, k - 1), mapping[members[k]])
       ELSE RewriteGroup(members, mapping, k - 1)

\* for proxy in final_proxies: link = convert_to_v2rayn_link(proxy): one link
\* per saved node, carrying its name (every node of the inputs is of a
\* protocol the converter supports).
V2raynLinks(final) == [k \in 1..Len(final) |-> final[k].name]

\* The Phase 2 loop is over, by its last iteration or by the caught
\* interrupt: checker.stop(), then the save step: the renaming loop,
\* config_data['proxies'] = final_proxies, the rewrite of the proxy-groups,
\* the dump to the output file and the link file.  proxy['name'] = new_name
\* writes into the dict that final_proxies holds; here the new name is the
\* entry's name, and proxies keeps the names as loaded.
Save ==
  /\ pc = "interrupted" \/ (pc = "phase2" /\ idx2 > Len(ip_groups))
  /\ LET r == SaveLoop(valid_proxies, results_map, Len(valid_proxies))
     IN /\ final_proxies' = r.final
        /\ name_mapping' = r.mapping
        /\ proxy_groups' =
             [g \in 1..Len(proxy_groups) |->
                RewriteGroup(proxy_groups[g], r.mapping, Len(proxy_groups[g]))]
        /\ v2rayn_links' = V2raynLinks(r.final)
  /\ written' = TRUE
  /\ pc' = "done"
  /\ UNCHANGED << proxies, valid_proxies >>
  /\ UNCHANGED phase1vars
  /\ UNCHANGED phase15vars
  /\ UNCHANGED phase2vars
  /\ UNCHANGED callvars
  /\ UNCHANGED sidevars

Next ==
  \/ \E i \in Nodes : StartCheckNode(i)
  \/ \E i \in Nodes : ProbeReturns(i)
  \/ Gather
  \/ SetMode
  \/ ProbeSelector
  \/ Phase15Step
  \/ BuildGroups
  \/ Phase2Step
  \/ Interrupt
  \/ Save

Spec == Init /\ [][Next]_vars

\* ------------------------------------------------- Phase 1 by numbers
\* The same check_node tasks, for a list of fan.plain ordinary nodes and
\* fan.excluded nodes whose name holds a keyword, kept as numbers of tasks in
\* each position: created (not yet past the keyword filter or the semaphore),
\* in flight, done.  A task is told from another only by its position.
FanoutInit ==
  /\ \E np \in 1..MaxFanout : \E ne \in 0..MaxFanoutExcluded :
       fan = [plain |-> np, excluded |-> ne, created |-> np,
              createdExcluded |-> ne, inflight |-> 0, done |-> 0,
              sem |-> SemaphoreValue, probes |-> 0, peak |-> 0]
  /\ proxies = << >>
  /\ pc = "fanout"
  /\ task = << >>
  /\ delay = << >>
  /\ finished = << >>
  /\ results = << >>
  /\ sem = SemaphoreValue
  /\ valid_proxies = << >>
  /\ selector_to_use = Missing
  /\ idx15 = 1
  /\ ip_to_proxy = [ip \in IpPool |-> NoProxy]
  /\ unique_proxies = << >>
  /\ node_ip_map = [n \in NamePool |-> Missing]
  /\ results_map = [n \in NamePool |-> Absent]
  /\ ip_groups = << >>
  /\ idx2 = 1
  /\ probeCalls = << >>
  /\ ipAt = << >>
  /\ p2switch = << >>
  /\ p2check = << >>
  /\ final_proxies = << >>
  /\ name_mapping = [n \in NamePool |-> Absent]
  /\ written = FALSE
  /\ proxy_groups = << >>
  /\ v2rayn_links = << >>
  /\ modeCalls = 0
  /\ switchCalls = 0
  /\ SELECTOR_NAME = "GLOBAL"
  /\ events = << >>
  /\ emo = NoEmoji
  /\ look = NoLookup
  /\ chk = NoChecker

mainvars == << proxies, pc, task, delay, finished, results, sem, valid_proxies,
               selector_to_use, idx15, ip_to_proxy, unique_proxies,
               node_ip_map, results_map, ip_groups, idx2, probeCalls, ipAt,
               p2switch, p2check, final_proxies, name_mapping, written,
               proxy_groups, v2rayn_links, modeCalls, switchCalls,
               SELECTOR_NAME, events >>

Max(a, b) == IF a >= b THEN a ELSE b

\* A task whose name holds a keyword returns None without a request
FanoutSkip ==
  /\ pc = "fanout"
  /\ fan.createdExcluded > 0
  /\ fan' = [fan EXCEPT !.createdExcluded = @ - 1, !.done = @ + 1]
  /\ UNCHANGED mainvars
  /\ UNCHANGED << emo, look, chk >>

\* A task enters the semaphore and issues get_proxy_delay
FanoutStart ==
  /\ pc = "fanout"
  /\ fan.created > 0
  /\ CanAcquire(fan.sem)
  /\ fan' = [fan EXCEPT !.created = @ - 1, !.sem = @ - 1, !.inflight = @ + 1,
                        !.probes = @ + 1,
                        !.peak = Max(@, fan.inflight + 1)]
  /\ UNCHANGED mainvars
  /\ UNCHANGED << emo, look, chk >>

\* get_proxy_delay returns, check_node returns and releases the semaphore
FanoutReturn ==
  /\ pc = "fanout"
  /\ fan.inflight > 0
  /\ fan' = [fan EXCEPT !.inflight = @ - 1, !.sem = @ + 1, !.done = @ + 1]
  /\ UNCHANGED mainvars
  /\ UNCHANGED << emo, look, chk >>

FanoutNext == FanoutSkip \/ FanoutStart \/ FanoutReturn

\* The event loop runs every task that can run, and every request ends: it
\* carries timeout=5.
FanoutSpec ==
  /\ FanoutInit
  /\ [][FanoutNext]_vars
  /\ WF_vars(FanoutSkip) /\ WF_vars(FanoutStart) /\ WF_vars(FanoutReturn)

\* ======================================================================
\* Properties
\* ======================================================================
InSeq(q, x) == \E k \in 1..Len(q) : q[k] = x
PositionIn(q, x) == CHOOSE k \in 1..Len(q) : q[k] = x

\* The Phase-1 survivors whose Phase 1.5 iteration is over
Processed == { valid_proxies[k] : k \in 1..(idx15 - 1) }
\* ... and whose lookup returned an address
Resolved == { p \in Processed : ipAt[p] \in IpPool }
Kept(p) == InSeq(unique_proxies, p)
\* The first survivor, in input order, whose lookup returned address ip
FirstSeen(ip) ==
  CHOOSE p \in Resolved :
    ipAt[p] = ip /\ \A q \in Resolved : ipAt[q] = ip => p <= q
\* No two Phase-1 survivors bear the same name
UniqueNames ==
  \A i, j \in 1..Len(valid_proxies) :
     NameOf(valid_proxies[i]) = NameOf(valid_proxies[j]) => i = j
Phase15Over ==
  pc \in {"phase2", "interrupted", "cancelled", "done"} /\ valid_proxies # << >>
MembersOf(g) == { ip_groups[g].members[k] : k \in 1..Len(ip_groups[g].members) }
AllMembers == UNION { MembersOf(g) : g \in 1..Len(ip_groups) }

\* C1: processing the Phase-1 survivors in input order, a node whose resolved
\* exit address was not seen before is kept and owns the address; a node whose
\* address was seen before is kept exactly when its source equals the source
\* of the owner, the first node seen with the address.  With unique names,
\* X(ip,S1), Y(ip,S1), Z(ip,S2) give the output [X, Y] and the single group
\* [X, Y], whose representative is X.
C1_DedupDecision ==
  /\ \A p \in Resolved :
       /\ ip_to_proxy[ipAt[p]] = FirstSeen(ipAt[p])
       /\ Kept(p) <=> SourceOf(p) = SourceOf(FirstSeen(ipAt[p]))
       /\ p = FirstSeen(ipAt[p]) => Kept(p)
  /\ ( /\ UniqueNames
       /\ Phase15Over
       /\ Len(valid_proxies) = 3
       /\ \A k \in 1..3 : ipAt[valid_proxies[k]] \in IpPool
       /\ ipAt[valid_proxies[1]] = ipAt[valid_proxies[2]]
       /\ ipAt[valid_proxies[2]] = ipAt[valid_proxies[3]]
       /\ SourceOf(valid_proxies[1]) = SourceOf(valid_proxies[2])
       /\ SourceOf(valid_proxies[2]) # SourceOf(valid_proxies[3]) )
     => /\ unique_proxies = << valid_proxies[1], valid_proxies[2] >>
        /\ ip_groups = << [ip |-> ipAt[valid_proxies[1]],
                           members |-> << valid_proxies[1], valid_proxies[2] >>] >>
        /\ \A k \in 1..Len(p2switch) : p2switch[k] = valid_proxies[1]

\* Scenario B has run to its end: X and Y kept, Z dropped, X classified.
C1_Witness ==
  /\ pc = "done"
  /\ UniqueNames
  /\ Len(valid_proxies) = 3
  /\ \A k \in 1..3 : ipAt[valid_proxies[k]] = "10.0.0.11"
  /\ SourceOf(valid_proxies[1]) = "Sub-1"
  /\ SourceOf(valid_proxies[2]) = "Sub-1"
  /\ SourceOf(valid_proxies[3]) = "Sub-2"
  /\ unique_proxies = << valid_proxies[1], valid_proxies[2] >>
  /\ p2check = << valid_proxies[1] >>

\* Two Phase-1 survivors, A before B in input order, whose lookups returned
\* the same address
SameIpPairs ==
  { ab \in Resolved \X Resolved : ab[1] < ab[2] /\ ipAt[ab[1]] = ipAt[ab[2]] }

\* C2 as stated: two survivors with the same resolved address and the same
\* source are both kept, whatever else is in the input.
C2_Original ==
  \A ab \in SameIpPairs :
     SourceOf(ab[1]) = SourceOf(ab[2]) => Kept(ab[1]) /\ Kept(ab[2])

\* C2, amended: two survivors with the same resolved address and the same
\* source share one fate: both are kept when their source is the source of the
\* address's owner (so whenever one of them is the first node seen with the
\* address), and both are dropped when it is not.
C2_SameSourceSameFate ==
  \A ab \in SameIpPairs :
     SourceOf(ab[1]) = SourceOf(ab[2]) =>
       /\ Kept(ab[1]) <=> Kept(ab[2])
       /\ Kept(ab[1]) <=> SourceOf(ab[1]) = SourceOf(FirstSeen(ipAt[ab[1]]))
       /\ ab[1] = FirstSeen(ipAt[ab[1]]) => Kept(ab[1]) /\ Kept(ab[2])

\* An owner and a later node of its source, both kept, while a third node with
\* the same address and another source is dropped.
C2_Witness ==
  /\ Phase15Over
  /\ \E ab \in SameIpPairs :
       /\ SourceOf(ab[1]) = SourceOf(ab[2])
       /\ ab[1] = FirstSeen(ipAt[ab[1]])
       /\ Kept(ab[1]) /\ Kept(ab[2])
       /\ \E c \in Resolved : ipAt[c] = ipAt[ab[1]] /\ ~Kept(c)

\* C3 as stated: of two survivors with the same resolved address and
\* different sources exactly the earlier is kept, whatever else is in the input.
C3_Original ==
  \A ab \in SameIpPairs :
     SourceOf(ab[1]) # SourceOf(ab[2]) => Kept(ab[1]) /\ ~Kept(ab[2])

\* C3, amended: two survivors with the same resolved address and different
\* sources are never both kept; the one whose source is the owner's is kept
\* and the other dropped, so when the earlier is the first node seen with the
\* address it is kept and the later is dropped.
C3_CrossSourceNotBoth ==
  \A ab \in SameIpPairs :
     SourceOf(ab[1]) # SourceOf(ab[2]) =>
       /\ ~(Kept(ab[1]) /\ Kept(ab[2]))
       /\ \A x \in {ab[1], ab[2]} :
            Kept(x) <=> SourceOf(x) = SourceOf(FirstSeen(ipAt[x]))
       /\ ab[1] = FirstSeen(ipAt[ab[1]]) => Kept(ab[1]) /\ ~Kept(ab[2])

\* The owner kept and a later node of another source dropped.
C3_Witness ==
  /\ Phase15Over
  /\ \E ab \in SameIpPairs :
       /\ SourceOf(ab[1]) # SourceOf(ab[2])
       /\ ab[1] = FirstSeen(ipAt[ab[1]])
       /\ Kept(ab[1]) /\ ~Kept(ab[2])

\* A Phase-1 survivor whose lookup returned None
Unresolved == { p \in Processed : ipAt[p] = None }
InSomeGroup(p) == p \in AllMembers
AfterGrouping == Phase15Over
SwitchedInPhase2(p) == InSeq(p2switch, p)
CheckedInPhase2(p) == InSeq(p2check, p)

UnknownDirectly(p) ==
  /\ Kept(p)
  /\ AfterGrouping =>
       /\ ~InSomeGroup(p)
       /\ results_map[NameOf(p)] = UnknownTag
       /\ ~SwitchedInPhase2(p)
       /\ ~CheckedInPhase2(p)

KeywordedNames ==
  { n \in NamePool : \E kw \in SKIP_KEYWORDS : IsSubstring(kw, n) }
HasKeyword(i) == NameOf(i) \in KeywordedNames
RECURSIVE SumCalls(_)
SumCalls(k) == IF k = 0 THEN 0 ELSE probeCalls[k] + SumCalls(k - 1)

\* C5: a node whose name contains an exclusion keyword is never probed and
\* never a survivor; when Phase 1 is over the number of probes issued is the
\* number of nodes that match no keyword, one probe each.
C5_ExcludedNeverProbed ==
  /\ \A i \in Nodes :
       HasKeyword(i) => probeCalls[i] = 0 /\ ~InSeq(valid_proxies, i)
  /\ pc # "phase1" =>
       /\ \A i \in Nodes : ~HasKeyword(i) => probeCalls[i] = 1
       /\ SumCalls(N) = Cardinality({ i \in Nodes : ~HasKeyword(i) })

\* Scenario A: three nodes, one excluded, Phase 1 over after two probes.
C5_Witness ==
  /\ pc = "setmode"
  /\ N = 3
  /\ Cardinality({ i \in Nodes : HasKeyword(i) }) = 1
  /\ SumCalls(N) = 2

\* C6: the survivor list is a subsequence of the input list, whatever the
\* completion order of the probes, and it is computed only when every task is
\* done.
C6_SurvivorsSubsequence ==
  /\ \A k \in 1..Len(valid_proxies) : valid_proxies[k] \in Nodes
  /\ \A j, k \in 1..Len(valid_proxies) :
       j < k => valid_proxies[j] < valid_proxies[k]
  /\ pc = "phase1" => valid_proxies = << >>
  /\ pc # "phase1" => \A i \in Nodes : task[i] = "done"
  /\ valid_proxies # << >> =>
       \A i \in Nodes : InSeq(valid_proxies, i) <=> results[i] = i

\* Two survivors whose probes completed in the reverse of input order.
C6_Witness ==
  /\ pc = "setmode"
  /\ \E a, b \in Nodes :
       /\ a < b
       /\ InSeq(valid_proxies, a) /\ InSeq(valid_proxies, b)
       /\ PositionIn(finished, b) < PositionIn(finished, a)

Phase1Over == pc = "setmode" \/ (pc = "done" /\ valid_proxies = << >>)
PositiveInt(d) == d # NoInt /\ d[1] > 0

\* C7: a node that matches no keyword survives Phase 1 exactly when its
\* probe returned a positive integer; a probe returning 0 or None removes it.
C7_SurvivesIffPositiveDelay ==
  /\ \A i \in Nodes :
       task[i] = "done" /\ pc = "phase1" /\ ~HasKeyword(i) =>
         (results[i] = i <=> PositiveInt(delay[i]))
  /\ Phase1Over =>
       \A i \in Nodes :
         ~HasKeyword(i) => (InSeq(valid_proxies, i) <=> PositiveInt(delay[i]))

\* Phase 1 is over: one probe returned 0, one None, one a positive delay.
C7_Witness ==
  /\ pc = "setmode"
  /\ \E a, b, c \in Nodes :
       /\ delay[a] = << 0 >> /\ ~InSeq(valid_proxies, a)
       /\ delay[b] = NoInt /\ ~HasKeyword(b) /\ ~InSeq(valid_proxies, b)
       /\ PositiveInt(delay[c]) /\ InSeq(valid_proxies, c)

\* C9: once Phase 2 has processed a group, every member has the tag of the
\* group's representative, its first member.
C9_GroupSharesTag ==
  \A g \in 1..Len(ip_groups) :
     g < idx2 =>
       \A m \in MembersOf(g) :
          /\ results_map[NameOf(m)] # Absent
          /\ results_map[NameOf(m)] =
               results_map[NameOf(ip_groups[g].members[1])]

\* A processed group of two differently named members, for each origin of a
\* tag: a classification, a failed switch (no check) and a check that raised
\* are all reachable shapes; here the classified one.
C9_Witness ==
  /\ pc = "done"
  /\ \E g \in 1..Len(ip_groups) :
       /\ g < idx2
       /\ Len(ip_groups[g].members) >= 2
       /\ NameOf(ip_groups[g].members[1]) # NameOf(ip_groups[g].members[2])
       /\ results_map[NameOf(ip_groups[g].members[2])] \in TagPool

Representatives == { ip_groups[g].members[1] : g \in 1..Len(ip_groups) }

\* C10: check() is called at most once per group, on its representative: the
\* calls never outnumber the groups, the groups never outnumber the distinct
\* addresses Phase 1.5 found, and no other member is switched to or checked.
C10_OneCheckPerGroup ==
  /\ Len(p2check) <= Len(ip_groups)
  /\ Len(ip_groups) <= Cardinality({ ipAt[p] : p \in Resolved })
  /\ \A j, k \in 1..Len(p2check) : p2check[j] = p2check[k] => j = k
  /\ \A k \in 1..Len(p2check) : p2check[k] \in Representatives
  /\ \A k \in 1..Len(p2switch) : p2switch[k] = ip_groups[k].members[1]
  /\ \A p \in AllMembers \ Representatives :
       ~SwitchedInPhase2(p) /\ ~CheckedInPhase2(p)

\* Two groups, one of them with two members, and two calls of check().
C10_Witness ==
  /\ pc = "done"
  /\ Len(ip_groups) = 2
  /\ Len(p2check) = 2
  /\ Cardinality(AllMembers) = 3

\* C8: at every moment of Phase 1 at most SemaphoreValue (50) requests are in
\* flight, for lists longer than that too, and every node that matches no
\* keyword is probed in the end.
C8_BoundedFanout ==
  /\ [](fan.inflight <= SemaphoreValue /\ fan.peak <= SemaphoreValue)
  /\ <>(fan.probes = fan.plain /\ fan.done = fan.plain + fan.excluded)

\* A list longer than the limit: all of it probed, the limit reached on the way.
C8_Witness ==
  /\ pc = "fanout"
  /\ fan.plain > SemaphoreValue
  /\ fan.peak = SemaphoreValue
  /\ fan.probes = fan.plain
  /\ fan.done = fan.plain + fan.excluded

\* ------------------------------------------------------- the saved output
SavedNodes == { final_proxies[k].node : k \in 1..Len(final_proxies) }
\* Link k is made from saved node k
LinkedNodes == { final_proxies[k].node : k \in 1..Len(v2rayn_links) }
\* The Phase-1 survivors Phase 1.5 judged cross-subscription duplicates
Dropped == { p \in Resolved : ~Kept(p) }
Saved == pc = "done" /\ written

\* C11 as stated: a node dropped in Phase 1.5 as a cross-subscription
\* duplicate is neither in the saved node list nor in the link output.
C11_Original ==
  Saved => \A p \in Dropped : p \notin SavedNodes /\ p \notin LinkedNodes

\* C12: when no node survives Phase 1 the run is over at once: nothing is
\* left to do, no file is written, and no set_mode call, switch, lookup or
\* classification was made.
C12_NoSurvivorsNoOutput ==
  (pc # "phase1" /\ valid_proxies = << >>) =>
     /\ pc = "done"
     /\ ~ENABLED Next
     /\ ~written
     /\ final_proxies = << >> /\ v2rayn_links = << >>
     /\ modeCalls = 0
     /\ switchCalls = 0
     /\ selector_to_use = Missing
     /\ \A i \in Nodes : ipAt[i] = Missing
     /\ p2switch = << >> /\ p2check = << >>

\* Three nodes, two of them probed and none alive: the run is over.
C12_Witness ==
  /\ pc = "done"
  /\ N = 3
  /\ valid_proxies = << >>
  /\ SumCalls(N) = 2
  /\ ~written

\* The run was interrupted during the Phase 2 loop
InterruptedRun ==
  \/ pc \in {"interrupted", "cancelled"}
  \/ pc = "done" /\ valid_proxies # << >> /\ idx2 <= Len(ip_groups)
RunOver == pc \in {"done", "cancelled"}
\* The members of the groups the Phase 2 loop has not processed
Unprocessed == UNION { MembersOf(g) : g \in idx2..Len(ip_groups) }

\* C13 as stated: a run interrupted during the Phase 2 loop still saves: when
\* it is over the output is written, every tag recorded in results_map is
\* applied to its node, and the nodes of the groups not yet processed keep
\* their original names.
C13_Original ==
  (InterruptedRun /\ RunOver) =>
     /\ written
     /\ SavedNodes = { valid_proxies[k] : k \in 1..Len(valid_proxies) }
     /\ \A k \in 1..Len(final_proxies) :
          LET e == final_proxies[k]
              old == NameOf(e.node)
          IN /\ results_map[old] # Absent =>
                  e.name = NewName(old, results_map[old])
             /\ e.node \in Unprocessed => e.name = old

\* The member names of the one proxy-group of the inputs, as loaded
LoadedGroup == [i \in 1..N |-> NameOf(i)]
SurvivedPhase1(name) ==
  \E k \in 1..Len(valid_proxies) : NameOf(valid_proxies[k]) = name
SavedNames == { final_proxies[k].name : k \in 1..Len(final_proxies) }

\* C14 as stated: the rewritten membership list drops exactly the members
\* whose node did not survive Phase 1: it holds the final name of every saved
\* node, tagged or not, and nothing but names of saved nodes, one per
\* surviving member.
C14_Original ==
  Saved =>
     /\ \A k \in 1..Len(final_proxies) :
          InSeq(proxy_groups[1], final_proxies[k].name)
     /\ \A k \in 1..Len(proxy_groups[1]) : proxy_groups[1][k] \in SavedNames
     /\ Len(proxy_groups[1]) =
          Cardinality({ i \in 1..N : SurvivedPhase1(LoadedGroup[i]) })

\* Removing a leading bracketed tag from a name: the text after the first "]"
\* when the name begins with "[", one or more characters other than "]",
\* and "]"
StripTag(name) ==
  IF /\ Len(name) >= 3 /\ name[1] = "[" /\ name[2] # "]"
     /\ \E b \in 3..Len(name) : name[b] = "]"
  THEN LET b == CHOOSE x \in 3..Len(name) :
                  name[x] = "]" /\ \A y \in 3..(x - 1) : name[y] # "]"
       IN SubSeq(name, b + 1, Len(name))
  ELSE name

\* C18: in the saved list a node whose name has a tag in results_map is named
\* by the tag's bracket prefix followed by its original name (the unknown tag
\* followed by the name, for the unknown tag), and removing the leading
\* bracketed tag gives the original name back; a node without a tag keeps its
\* name.
C18_FinalName ==
  Saved =>
     /\ Len(final_proxies) = Len(valid_proxies)
     /\ \A k \in 1..Len(final_proxies) :
          LET e == final_proxies[k]
              old == NameOf(e.node)
              tag == results_map[old]
          IN /\ e.node = valid_proxies[k]
             /\ IF tag # Absent
                THEN /\ BracketPrefix(tag) # Absent
                     /\ e.name = BracketPrefix(tag) \o old
                     /\ tag = UnknownTag => e.name = UnknownTag \o old
                     /\ StripTag(e.name) = old
                     /\ name_mapping[old] = e.name
                ELSE e.name = old

\* A saved list with a node under the unknown tag, a classified node and a
\* node without a tag.
C18_Witness ==
  /\ Saved
  /\ \E a, b, c \in 1..Len(final_proxies) :
       /\ results_map[NameOf(final_proxies[a].node)] = UnknownTag
       /\ final_proxies[a].name = UnknownTag \o NameOf(final_proxies[a].node)
       /\ results_map[NameOf(final_proxies[b].node)] \in TagPool \ {ErrorTag}
       /\ results_map[NameOf(final_proxies[c].node)] = Absent
       /\ final_proxies[c].name = NameOf(final_proxies[c].node)

\* The groups g that hold node p, and the positions of p in a group
GroupsOf(p) == { g \in 1..Len(ip_groups) : p \in MembersOf(g) }
KnownIpSurvivors == { p \in Processed : Kept(p) /\ ipAt[p] \in IpPool }

\* C20: with unique names, after grouping every Phase 1.5 survivor with a
\* known address is in exactly one group, once, the group keyed by its
\* address; no dropped node and no node without a known address is in a
\* group; the groups follow the first occurrence of their address among the
\* survivors, members follow survivor order, and the representative is the
\* first member.
C20_GroupInvariant ==
  (AfterGrouping /\ UniqueNames) =>
     /\ \A p \in KnownIpSurvivors :
          /\ Cardinality(GroupsOf(p)) = 1
          /\ \A g \in GroupsOf(p) :
               /\ ip_groups[g].ip = ipAt[p]
               /\ Cardinality({ k \in 1..Len(ip_groups[g].members) :
                                  ip_groups[g].members[k] = p }) = 1
     /\ AllMembers = KnownIpSurvivors
     /\ \A g, h \in 1..Len(ip_groups) :
          /\ g # h => ip_groups[g].ip # ip_groups[h].ip
          /\ g < h => PositionIn(unique_proxies, ip_groups[g].members[1])
                        < PositionIn(unique_proxies, ip_groups[h].members[1])
     /\ \A g \in 1..Len(ip_groups) :
          LET m == ip_groups[g].members
          IN /\ Len(m) >= 1
             /\ \A j, k \in 1..Len(m) :
                  j < k => PositionIn(unique_proxies, m[j])
                             < PositionIn(unique_proxies, m[k])
             /\ Representative(m) = m[1]
             /\ \A k \in 1..Len(m) :
                  PositionIn(unique_proxies, Representative(m))
                    <= PositionIn(unique_proxies, m[k])

\* Three uniquely named survivors X, Z, Y: X and Y share an address and a
\* source, Z has another address: two groups, [X, Y] then [Z].
C20_Witness ==
  /\ pc = "phase2"
  /\ UniqueNames
  /\ unique_proxies = << 1, 2, 3 >>
  /\ Len(ip_groups) = 2
  /\ ip_groups[1].members = << 1, 3 >>
  /\ ip_groups[2].members = << 2 >>

\* ======================================================================
\* The order of the requests of Phases 1.5 and 2
\* ======================================================================
EventsOf(op) == { k \in 1..Len(events) : events[k].op = op }
Reads == EventsOf("lookup") \cup EventsOf("check")
\* The survivors whose Phase 1.5 switch failed
SwitchFailed15 == { p \in Processed : ipAt[p] = Missing }

\* C21: the selector is driven serially.  Every switch request is answered
\* before the coroutine makes any other request, so at most one is outstanding;
\* every exit-IP lookup and every classification follows, for the same node
\* and with nothing between, a switch request, its successful answer and the
\* settle sleep; and every address or classification the program attributes
\* to a node comes from such a read for that node.
C21_SerialSelector ==
  /\ \A k \in EventsOf("put") :
       /\ k + 1 <= Len(events)
       /\ events[k + 1].op = "status"
       /\ events[k + 1].node = events[k].node
       /\ events[k + 1].selector = events[k].selector
  /\ \A k \in EventsOf("status") : k > 1 /\ events[k - 1].op = "put"
  /\ Cardinality(EventsOf("put")) = switchCalls
  /\ \A k \in Reads :
       /\ k >= 4
       /\ events[k - 1].op = "sleep" /\ events[k - 1].node = events[k].node
       /\ events[k - 2].op = "status" /\ events[k - 2].node = events[k].node
       /\ events[k - 2].ok
       /\ events[k - 3].op = "put" /\ events[k - 3].node = events[k].node
  /\ \A p \in Processed :
       ipAt[p] # Missing =>
         Cardinality({ k \in EventsOf("lookup") : events[k].node = p }) = 1
  /\ \A p \in SwitchFailed15 :
       { k \in EventsOf("lookup") : events[k].node = p } = {}
  /\ \A j \in 1..Len(p2check) :
       Cardinality({ k \in EventsOf("check") : events[k].node = p2check[j] }) = 1
  /\ Cardinality(EventsOf("check")) = Len(p2check)

\* The run is over; a Phase 1.5 switch failed, a lookup and a classification
\* were made, each after its own switch.
C21_Witness ==
  /\ pc = "done"
  /\ SwitchFailed15 # {}
  /\ EventsOf("lookup") # {}
  /\ EventsOf("check") # {}
  /\ \E k \in EventsOf("status") : k > 2 /\ ~events[k].ok

\* C22: the phases run in the order 1, 1.5, 2, save.  A step that issues
\* set_mode or a selector switch starts with every Phase 1 task done; a step
\* that starts a Phase 2 switch or classification starts with every Phase-1
\* survivor processed by Phase 1.5 and the groups built; the step that writes
\* the output starts with the Phase 2 loop ended, by its last iteration or by
\* the caught interrupt, and no request follows it.
C22_PhaseOrder ==
  /\ [][ /\ (modeCalls' # modeCalls \/ switchCalls' # switchCalls
               \/ events' # events)
             => \A i \in Nodes : task[i] = "done"
         /\ (p2switch' # p2switch \/ p2check' # p2check)
             => /\ idx15 > Len(valid_proxies)
                /\ Processed = { valid_proxies[k] : k \in 1..Len(valid_proxies) }
                /\ pc = "phase2"
         /\ written' # written
             => /\ pc = "interrupted" \/ (pc = "phase2" /\ idx2 > Len(ip_groups))
                /\ pc' = "done"
         /\ written => events' = events /\ written' ]_vars
  /\ [](written => pc = "done")

\* The run is over with the output written, after probes, set_mode, lookups
\* and a classification.
C22_Witness ==
  /\ pc = "done"
  /\ written
  /\ \E i \in Nodes : probeCalls[i] = 1
  /\ modeCalls = 1
  /\ EventsOf("lookup") # {}
  /\ p2check # << >>

\* C23 as stated: for every configured selector name, every switch after the
\* probe goes to the selector that accepted the probe switch, or to "Proxy"
\* when the probe switch failed.
C23_Original ==
  \A k \in EventsOf("put") :
     k > 1 => events[k].selector =
                IF events[2].ok THEN events[1].selector ELSE "Proxy"

\* What a failed Phase 1.5 switch leaves behind, as far as it does not depend
\* on names: the node is kept, no sleep and no lookup was made in its
\* iteration (the request after the failed answer is a switch), it owns no
\* address.
KeptWithoutLookup(p) ==
  /\ Kept(p)
  /\ { k \in EventsOf("lookup") : events[k].node = p } = {}
  /\ \A k \in EventsOf("status") :
       (events[k].node = p /\ ~events[k].ok /\ k < Len(events))
          => events[k + 1].op = "put"
  /\ \A ip \in IpPool : ip_to_proxy[ip] # p

\* ... and as far as it does: no node_ip_map entry, and from the grouping
\* loop on the unknown tag, no group, no Phase 2 switch or classification.
NoIdentity(p) ==
  /\ node_ip_map[NameOf(p)] = Missing
  /\ AfterGrouping =>
       /\ ~InSomeGroup(p)
       /\ results_map[NameOf(p)] = UnknownTag
       /\ ~SwitchedInPhase2(p)
       /\ ~CheckedInPhase2(p)

\* The loop goes on after an iteration: the next iteration, or the grouping
\* after the last one, can be taken.
LoopContinues == pc = "phase15" => ENABLED (Phase15Step \/ BuildGroups)

\* C24 as stated: a survivor whose Phase 1.5 switch failed is kept, without
\* sleep or lookup, with no node_ip_map entry and no ownership, the loop
\* continues, and it later has the unknown tag and is in no group.
C24_Original ==
  /\ \A p \in SwitchFailed15 : KeptWithoutLookup(p) /\ NoIdentity(p)
  /\ LoopContinues

\* C24, amended: the same, where the node_ip_map entry, the tag and the
\* groups are claimed only for a survivor whose name no other Phase-1
\* survivor bears.
C24_SwitchFailureKept ==
  /\ \A p \in SwitchFailed15 :
       /\ KeptWithoutLookup(p)
       /\ (\A k \in 1..Len(valid_proxies) :
              NameOf(valid_proxies[k]) = NameOf(p) => valid_proxies[k] = p)
          => NoIdentity(p)
  /\ LoopContinues

\* The run is over; the switch to the first of three uniquely named
\* survivors failed, the later ones were looked up and one was classified.
C24_Witness ==
  /\ pc = "done"
  /\ UniqueNames
  /\ Len(valid_proxies) = 3
  /\ valid_proxies[1] \in SwitchFailed15
  /\ ipAt[valid_proxies[2]] \in IpPool
  /\ results_map[NameOf(valid_proxies[1])] = UnknownTag
  /\ p2check # << >>

\* The answer to the Phase 2 switch to representative p: the last answer of
\* a switch to p
LastStatus(p) ==
  events[CHOOSE k \in EventsOf("status") :
           /\ events[k].node = p
           /\ \A j \in EventsOf("status") : events[j].node = p => j <= k]
SwitchFailed2(g) == g < idx2 /\ ~LastStatus(ip_groups[g].members[1]).ok
CheckRaised(g) ==
  /\ g < idx2
  /\ \E k \in EventsOf("check") :
       events[k].node = ip_groups[g].members[1] /\ ~events[k].ok

\* C25: in Phase 2 a failed switch to the representative, or a check() that
\* raised, leaves every member of the group with the unknown tag; after a
\* failed switch check() is not called for the group; and the loop goes on:
\* the next group can be processed, and a run that ends uninterrupted has
\* switched to the representative of every group.
C25_FailureMarksUnknown ==
  /\ \A g \in 1..Len(ip_groups) :
       /\ (SwitchFailed2(g) \/ CheckRaised(g)) =>
             \A m \in MembersOf(g) : results_map[NameOf(m)] = UnknownTag
       /\ SwitchFailed2(g) =>
             /\ ~CheckedInPhase2(ip_groups[g].members[1])
             /\ \A k \in EventsOf("check") :
                  events[k].node # ip_groups[g].members[1]
  /\ (pc = "phase2" /\ idx2 <= Len(ip_groups)) => ENABLED Phase2Step
  /\ (pc = "done" /\ valid_proxies # << >> /\ ~InterruptedRun) =>
        /\ Len(p2switch) = Len(ip_groups)
        /\ \A g \in 1..Len(ip_groups) : p2switch[g] = ip_groups[g].members[1]

\* An uninterrupted run of two groups: the switch to the representative of
\* the first, which has two members, failed, and the check of the second
\* raised.
C25_Witness ==
  /\ pc = "done"
  /\ ~InterruptedRun
  /\ Len(ip_groups) = 2
  /\ Len(ip_groups[1].members) = 2
  /\ SwitchFailed2(1)
  /\ CheckRaised(2)

SameSourceOwnerFirst ==
  \A g \in 1..Len(ip_groups) :
     /\ \A m \in MembersOf(g) :
          SourceOf(m) = SourceOf(ip_groups[g].members[1])
     /\ ip_to_proxy[ip_groups[g].ip] = ip_groups[g].members[1]

\* C28 as stated: in every group all members have the same source, and the
\* representative is the owner of the group's address in ip_to_proxy.
C28_Original == AfterGrouping => SameSourceOwnerFirst

\* C28, amended: the same, when no two Phase-1 survivors bear the same name.
C28_GroupSameSource == (AfterGrouping /\ UniqueNames) => SameSourceOwnerFirst

\* Three uniquely named survivors of one address: the first two of one
\* source form the group, the third, of another source, was dropped.
C28_Witness ==
  /\ pc = "phase2"
  /\ UniqueNames
  /\ Len(valid_proxies) = 3
  /\ unique_proxies = << valid_proxies[1], valid_proxies[2] >>
  /\ Len(ip_groups) = 1
  /\ ip_groups[1].members = unique_proxies
  /\ ipAt[valid_proxies[3]] = ip_groups[1].ip

Phase2LoopEnded ==
  /\ pc \in {"phase2", "done"}
  /\ valid_proxies # << >>
  /\ idx2 > Len(ip_groups)

\* C29: when the Phase 2 loop has ended without interruption and the names
\* are unique, a survivor of Phase 1 has a tag in results_map exactly when
\* Phase 1.5 kept it, and results_map has no other key.
C29_TagsExactlySurvivors ==
  (Phase2LoopEnded /\ UniqueNames) =>
     /\ \A k \in 1..Len(valid_proxies) :
          results_map[NameOf(valid_proxies[k])] # Absent
             <=> Kept(valid_proxies[k])
     /\ \A n \in NamePool :
          results_map[n] # Absent =>
             \E k \in 1..Len(unique_proxies) : NameOf(unique_proxies[k]) = n

\* The loop has ended: a node was dropped as a cross-source duplicate, a
\* Phase 1.5 switch failed, a Phase 2 switch failed.
C29_Witness ==
  /\ Phase2LoopEnded
  /\ UniqueNames
  /\ \E k \in 1..Len(valid_proxies) : ~Kept(valid_proxies[k])
  /\ SwitchFailed15 # {}
  /\ \E g \in 1..Len(ip_groups) : SwitchFailed2(g)

\* ======================================================================
\* IPChecker.get_emoji (src/ipcheck.py), applied to strings
\* ======================================================================
Digits == << "0", "1", "2", "3", "4", "5", "6", "7", "8", "9" >>
DigitSet == { Digits[k] : k \in 1..10 }
DigitVal(c) == (CHOOSE k \in 1..10 : Digits[k] = c) - 1
\* The characters of the strings handed to get_emoji
PctAlphabet == DigitSet \cup { ".", "%", "-", "a" }
PctStrings == UNION { [1..n -> PctAlphabet] : n \in 0..MaxPctLen }

IsNotPercent(c) == c # "%"
\* percentage_str.replace('%', '')
RemovePercent(str) == SelectSeq(str, IsNotPercent)

RECURSIVE IntOf(_)
IntOf(ds) ==
  IF ds = << >> THEN 0
  ELSE 10 * IntOf(SubSeq(ds, 1, Len(ds) - 1)) + DigitVal(ds[Len(ds)])
RECURSIVE Pow10(_)
Pow10(k) == IF k = 0 THEN 1 ELSE 10 * Pow10(k - 1)

\* float(text), for text over digits, ".", "-" and other characters: an
\* optional sign, then digits with at most one "." and at least one digit.
\* The value is num / den with the sign; anything else raises ValueError.
Unsigned(text) ==
  IF text # << >> /\ text[1] = "-" THEN SubSeq(text, 2, Len(text)) ELSE text
DotsOf(text) == { k \in 1..Len(text) : text[k] = "." }
FloatParses(text) ==
  LET u == Unsigned(text)
  IN /\ \A k \in 1..Len(u) : u[k] \in DigitSet \cup { "." }
     /\ Cardinality(DotsOf(u)) <= 1
     /\ \E k \in 1..Len(u) : u[k] \in DigitSet
Float(text) ==
  LET u == Unsigned(text)
      dot == IF DotsOf(u) = {} THEN Len(u) + 1 ELSE CHOOSE k \in DotsOf(u) : TRUE
      int == SubSeq(u, 1, dot - 1)
      frac == SubSeq(u, dot + 1, Len(u))
  IN [neg |-> text[1] = "-",
      num |-> IntOf(int) * Pow10(Len(frac)) + IntOf(frac),
      den |-> Pow10(Len(frac))]

FloatLt(val, t) == IF val.neg THEN TRUE ELSE val.num < t * val.den

\* val <= t, for a threshold t >= 0
FloatLe(val, t) == IF val.neg THEN TRUE ELSE val.num <= t * val.den

\* get_emoji: the six symbols by threshold, "?" when float() raises
get_emoji(percentage_str) ==
  IF ~FloatParses(RemovePercent(percentage_str)) THEN "?"
  ELSE LET val == Float(RemovePercent(percentage_str))
       IN IF FloatLe(val, 10) THEN "white"
          ELSE IF FloatLe(val, 30) THEN "green"
          ELSE IF FloatLe(val, 50) THEN "yellow"
          ELSE IF FloatLe(val, 70) THEN "orange"
          ELSE IF FloatLe(val, 90) THEN "red"
          ELSE "black"

EmojiIdle ==
  /\ proxies = << >>
  /\ task = << >>
  /\ delay = << >>
  /\ finished = << >>
  /\ results = << >>
  /\ sem = SemaphoreValue
  /\ valid_proxies = << >>
  /\ selector_to_use = Missing
  /\ idx15 = 1
  /\ ip_to_proxy = [ip \in IpPool |-> NoProxy]
  /\ unique_proxies = << >>
  /\ node_ip_map = [n \in NamePool |-> Missing]
  /\ results_map = [n \in NamePool |-> Absent]
  /\ ip_groups = << >>
  /\ idx2 = 1
  /\ probeCalls = << >>
  /\ ipAt = << >>
  /\ p2switch = << >>
  /\ p2check = << >>
  /\ final_proxies = << >>
  /\ name_mapping = [n \in NamePool |-> Absent]
  /\ written = FALSE
  /\ proxy_groups = << >>
  /\ v2rayn_links = << >>
  /\ modeCalls = 0
  /\ switchCalls = 0
  /\ SELECTOR_NAME = "GLOBAL"
  /\ events = << >>
  /\ fan = NoFanout

\* A call of get_emoji about to be made with some string
EmojiInit ==
  /\ EmojiIdle
  /\ pc = "get_emoji"
  /\ \E str \in PctStrings : emo = [at |-> "called", percentage_str |-> str]
  /\ look = NoLookup
  /\ chk = NoChecker

EmojiReturns ==
  /\ pc = "get_emoji"
  /\ emo.at = "called"
  /\ emo' = [at |-> "returned", percentage_str |-> emo.percentage_str,
             out |-> get_emoji(emo.percentage_str)]
  /\ UNCHANGED mainvars
  /\ UNCHANGED << fan, look, chk >>

EmojiNext == EmojiReturns
EmojiSpec == EmojiInit /\ [][EmojiNext]_vars

\* The decimal numeral of v, and the numeral followed by "%"
RECURSIVE Numeral(_)
Numeral(v) ==
  IF v < 10 THEN << Digits[v + 1] >>
  ELSE Append(Numeral(v \div 10), Digits[(v % 10) + 1])
Percent(v) == Append(Numeral(v), "%")
\* The severity order of the six symbols
TierRank(e) ==
  CASE e = "white" -> 0 [] e = "green" -> 1 [] e = "yellow" -> 2
    [] e = "orange" -> 3 [] e = "red" -> 4 [] e = "black" -> 5
\* The symbol the thresholds give to a value num / den >= 0
TierOf(num, den) ==
  IF num <= 10 * den THEN "white"
  ELSE IF num <= 30 * den THEN "green"
  ELSE IF num <= 50 * den THEN "yellow"
  ELSE IF num <= 70 * den THEN "orange"
  ELSE IF num <= 90 * den THEN "red"
  ELSE "black"
IntegerInputs == { v \in 0..100 : emo.percentage_str \in { Numeral(v), Percent(v) } }

\* C17: get_emoji gives the symbol of the bucket of the value v by the
\* thresholds 10, 30, 50, 70, 90 (v <= 10 the first, v > 90 the last), gives
\* "?" for a string that does not parse, and over the integers 0..100 the
\* symbol never moves to a lower tier as v grows.
C17_EmojiThresholds ==
  emo.at = "returned" =>
     LET str == RemovePercent(emo.percentage_str)
     IN /\ ~FloatParses(str) => emo.out = "?"
        /\ (FloatParses(str) /\ ~Float(str).neg) =>
             emo.out = TierOf(Float(str).num, Float(str).den)
        /\ (FloatParses(str) /\ Float(str).neg) => emo.out = "white"
        /\ \A v \in IntegerInputs :
             /\ emo.out = TierOf(v, 1)
             /\ \A u \in 0..v :
                  TierRank(get_emoji(Percent(u))) <= TierRank(emo.out)
             /\ (v = 5 => emo.out = "white") /\ (v = 95 => emo.out = "black")
             /\ (v = 10 => emo.out = "white") /\ (v = 11 => emo.out = "green")
             /\ (v = 90 => emo.out = "red") /\ (v = 91 => emo.out = "black")

\* "90%" has been given the fifth symbol.
C17_Witness ==
  /\ emo.at = "returned"
  /\ emo.percentage_str = << "9", "0", "%" >>
  /\ emo.out = "red"

\* ======================================================================
\* IPChecker.get_simple_ip (src/ipcheck.py), applied to endpoint responses
\* ======================================================================
\* get_simple_ip returned None
NoneIp == << "None" >>

\* Response bodies of the two endpoints, one element per character
BodyPool ==
  { << "1", ".", "2", ".", "3", ".", "4" >>,
    << "1", ".", "2", ".", "3", ".", "4", "5" >>,
    << "1", "0", ".", "2", "0", ".", "3", "0", ".", "4", "0" >>,
    << "1", ".", "2", ".", "3", ".", "4", "5", "6", "7" >>,
    << " ", "1", ".", "2", ".", "3", ".", "4", "5", "\n" >>,
    << "1", ".", "2", ".", "3" >>,
    << "e", "r", "r" >>,
    << >> }
\* What a GET to an endpoint can produce: an exception (timeout, refused
\* connection), a status other than 200, or a 200 with a body
EndpointResponses ==
  { [kind |-> "error"], [kind |-> "status", status |-> 503, body |-> << >>] }
    \cup { [kind |-> "status", status |-> 200, body |-> b] : b \in BodyPool }

\* str.strip(): leading and trailing whitespace removed
IsSpace(c) == c \in { " ", "\n" }
RECURSIVE StripLeft(_)
StripLeft(t) ==
  IF t # << >> /\ IsSpace(t[1]) THEN StripLeft(SubSeq(t, 2, Len(t))) ELSE t
RECURSIVE StripRight(_)
StripRight(t) ==
  IF t # << >> /\ IsSpace(t[Len(t)])
  THEN StripRight(SubSeq(t, 1, Len(t) - 1)) ELSE t
Strip(t) == StripRight(StripLeft(t))

AllDigits(t, from, to) ==
  /\ to <= Len(t)
  /\ \A k \in from..to : t[k] \in DigitSet

\* Four groups of one to three digits separated by dots
IsDottedQuad(ip) ==
  \E a, b, c, d \in 1..3 :
     /\ Len(ip) = a + b + c + d + 3
     /\ AllDigits(ip, 1, a) /\ ip[a + 1] = "."
     /\ AllDigits(ip, a + 2, a + b + 1) /\ ip[a + b + 2] = "."
     /\ AllDigits(ip, a + b + 3, a + b + c + 2) /\ ip[a + b + c + 3] = "."
     /\ AllDigits(ip, a + b + c + 4, a + b + c + d + 3)

\* re.match(r"^\d{1,3}(\.\d{1,3}){3}\d{1,3}$", ip): one to three digits,
\* three times a dot and one to three digits, then one to three digits more.
ReMatch(ip) ==
  \E a, b, c, d, e \in 1..3 :
     /\ Len(ip) = a + b + c + d + e + 3
     /\ AllDigits(ip, 1, a) /\ ip[a + 1] = "."
     /\ AllDigits(ip, a + 2, a + b + 1) /\ ip[a + b + 2] = "."
     /\ AllDigits(ip, a + b + 3, a + b + c + 2) /\ ip[a + b + c + 3] = "."
     /\ AllDigits(ip, a + b + c + 4, a + b + c + d + 3)
     /\ AllDigits(ip, a + b + c + d + 4, a + b + c + d + e + 3)

\* get_simple_ip over the responses of urls[k..]: the stripped body of the
\* first 200 response the pattern matches; an exception or another status
\* moves on to the next url; None when the urls are used up.
RECURSIVE get_simple_ip(_, _)
get_simple_ip(resps, k) ==
  IF k > Len(resps) THEN NoneIp
  ELSE IF /\ resps[k].kind = "status" /\ resps[k].status = 200
          /\ ReMatch(Strip(resps[k].body))
       THEN Strip(resps[k].body)
       ELSE get_simple_ip(resps, k + 1)

\* A call of get_simple_ip about to be made; resps are the responses the two
\* endpoints would give, in the order of urls
LookupInit ==
  /\ EmojiIdle
  /\ pc = "get_simple_ip"
  /\ \E r1, r2 \in EndpointResponses :
       look = [at |-> "called", resps |-> << r1, r2 >>]
  /\ emo = NoEmoji
  /\ chk = NoChecker

LookupReturns ==
  /\ pc = "get_simple_ip"
  /\ look.at = "called"
  /\ look' = [at |-> "returned", resps |-> look.resps,
              out |-> get_simple_ip(look.resps, 1)]
  /\ UNCHANGED mainvars
  /\ UNCHANGED << fan, emo, chk >>

LookupNext == LookupReturns
LookupSpec == LookupInit /\ [][LookupNext]_vars

\* The endpoints, in order, whose response is a 200 with a dotted quad
ValidAnswers ==
  { k \in 1..Len(look.resps) :
      /\ look.resps[k].kind = "status" /\ look.resps[k].status = 200
      /\ IsDottedQuad(Strip(look.resps[k].body)) }

\* C19 as stated: get_simple_ip returns the trimmed body of the first 200
\* response that is a dotted quad, None exactly when neither endpoint gives
\* one, and never a string that is not a dotted quad.
C19_Original ==
  look.at = "returned" =>
     /\ ValidAnswers = {} <=> look.out = NoneIp
     /\ ValidAnswers # {} =>
          look.out = Strip(look.resps[CHOOSE k \in ValidAnswers :
                                        \A j \in ValidAnswers : k <= j].body)
     /\ look.out # NoneIp => IsDottedQuad(look.out)

\* ======================================================================
\* IPChecker.check and its cache (src/ipcheck.py)
\* ======================================================================
\* The unknown mark of a result field that holds text
UnknownMark == << "?" >>

\* Exit addresses the lookups and the page can report, one element per
\* character; the second begins with "103.", one of _backup_check's prefixes
CheckerIps ==
  { << "1", "0", ".", "0", ".", "0", ".", "1", "1" >>,
    << "1", "0", "3", ".", "0", ".", "0", ".", "3", "3" >> }
BackupPrefixes ==
  { << "1", "0", "3", "." >>, << "1", "3", "4", "." >>,
    << "4", "6", "." >>, << "1", "3", "." >> }

\* What the patterns of check() extract from the text of the page; << >> is
\* a pattern that does not match.  In order: a full report; a page without
\* any of the fields; such a page that shows an address; a report with the
\* score and an address only.
TextPool ==
  { [score |-> << "5", "%" >>, bot |-> << "6", "0", "%" >>,
     attr |-> << "ji", "fang" >>, src |-> << "guang", "bo" >>, ip |-> << >>],
    [score |-> << >>, bot |-> << >>, attr |-> << >>, src |-> << >>,
     ip |-> << >>],
    [score |-> << >>, bot |-> << >>, attr |-> << "zhu", "zhai" >>,
     src |-> << >>,
     ip |-> << "1", "0", ".", "0", ".", "0", ".", "1", "1" >>],
    [score |-> << "9", "5", "%" >>, bot |-> << >>, attr |-> << >>,
     src |-> << >>,
     ip |-> << "1", "0", "3", ".", "0", ".", "0", ".", "3", "3" >>] }

\* What the browser does in one call: page.goto or inner_text raises, or
\* the text is read
PageOutcomes ==
  { [kind |-> "raises"] } \cup { [kind |-> "text", text |-> t] : t \in TextPool }
RetryBudgets == { 0, DefaultRetry }

\* attr_abbr_map and src_abbr_map
attr_abbr_map ==
  [a \in { << "ji", "fang" >>, << "shu", "ju", "zhong", "xin" >>,
           << "zhu", "zhai" >>, << "qi", "ye" >>, << "jiao", "yu" >> }
     |-> IF a = << "shu", "ju", "zhong", "xin" >> THEN << "ji" >>
         ELSE SubSeq(a, 1, 1)]
src_abbr_map ==
  [a \in { << "yuan", "sheng" >>, << "guang", "bo" >>, << "I", "S", "P" >>,
           << "qi", "ye" >> }
     |-> IF a = << "I", "S", "P" >> THEN a ELSE SubSeq(a, 1, 1)]

\* map.get(value, value[:1] if value and value != "?" else "")
Abbreviate(map, value) ==
  IF value \in DOMAIN map THEN map[value]
  ELSE IF value # << >> /\ value # UnknownMark THEN SubSeq(value, 1, 1)
  ELSE << >>

\* The rendered tag of a result: [pure_emoji bot_emoji, a space, info]
FullString(result) ==
  LET attr == IF result.ip_attr # UnknownMark THEN result.ip_attr ELSE << >>
      src == IF result.ip_src # UnknownMark THEN result.ip_src ELSE << >>
      attr_short == Abbreviate(attr_abbr_map, attr)
      src_short == Abbreviate(src_abbr_map, src)
      info == IF attr_short # << >> /\ src_short # << >>
              THEN attr_short \o << "|" >> \o src_short
              ELSE IF attr_short # << >> THEN attr_short
              ELSE IF src_short # << >> THEN src_short
              ELSE << "jian ce zhong" >>
  IN << "[", result.pure_emoji, result.bot_emoji, " " >> \o info \o << "]" >>

\* The default result structure
DefaultResult(current_ip) ==
  [pure_emoji |-> "?", bot_emoji |-> "?", ip_attr |-> UnknownMark,
   ip_src |-> UnknownMark, pure_score |-> UnknownMark,
   bot_score |-> UnknownMark, full_string |-> << >>,
   ip |-> IF current_ip # NoneIp THEN current_ip ELSE UnknownMark,
   error |-> "None"]

\* The body of the try block once the text is read: the fields the patterns
\* found, the address of the page when the fast lookup gave none, and the tag
Scrape(result, text) ==
  LET found ==
        [pure_score |-> IF text.score # << >> THEN text.score
                        ELSE result.pure_score,
         pure_emoji |-> IF text.score # << >> THEN get_emoji(text.score)
                        ELSE result.pure_emoji,
         bot_score |-> IF text.bot # << >> THEN text.bot ELSE result.bot_score,
         bot_emoji |-> IF text.bot # << >> THEN get_emoji(text.bot)
                       ELSE result.bot_emoji,
         ip_attr |-> IF text.attr # << >> THEN text.attr ELSE result.ip_attr,
         ip_src |-> IF text.src # << >> THEN text.src ELSE result.ip_src,
         ip |-> IF result.ip = UnknownMark /\ text.ip # << >> THEN text.ip
                ELSE result.ip,
         full_string |-> result.full_string,
         error |-> result.error]
  IN [found EXCEPT !.full_string = FullString(found)]

AlwaysComplete(result) == TRUE

\* result["ip"] != "?" and result["pure_score"] != "?"
Complete(result) == result.ip # UnknownMark /\ result.pure_score # UnknownMark

\* self.cache[result["ip"]] = result.copy(), when the result is complete; a
\* cache slot is << >> (no key) or << result >>
CacheUpdate(cache, result) ==
  IF Complete(result) THEN [cache EXCEPT ![result.ip] = << result >>] ELSE cache

NeverHit(cache, current_ip) == FALSE

\* current_ip and current_ip in self.cache
CacheHit(cache, current_ip) ==
  current_ip # NoneIp /\ cache[current_ip] # << >>

\* _backup_check, given what its own get_simple_ip returns: None without an
\* address, otherwise a result that carries a score only for an address with
\* one of the prefixes; << >> is None, << result >> a result
backup_check(current_ip) ==
  IF current_ip = NoneIp THEN << >>
  ELSE LET base == [pure_emoji |-> "?", bot_emoji |-> "?",
                    ip_attr |-> << "wei", "zhi" >>, ip_src |-> << "wei", "zhi" >>,
                    pure_score |-> UnknownMark, bot_score |-> UnknownMark,
                    full_string |-> << >>, ip |-> current_ip, error |-> "None"]
           est == [base EXCEPT !.pure_emoji = "yellow", !.bot_emoji = "orange",
                               !.ip_attr = << "ji", "fang" >>,
                               !.ip_src = << "guang", "bo" >>,
                               !.pure_score = << "4", "0", "%" >>,
                               !.bot_score = << "6", "0", "%" >>]
       IN IF \E pre \in BackupPrefixes : IsPrefix(pre, current_ip)
          THEN << [est EXCEPT !.full_string = FullString(est)] >>
          ELSE << base >>

\* One call of check() from its entry to its return or to the exception it
\* leaves with, given what the environment does in it: env.start (only read
\* when the browser is not started), env.fast (the fast lookup), env.context
\* (new_context, route, new_page), env.page, env.close (page.close,
\* context.close), env.backup (the lookup of _backup_check), env.retry.
\* The value: the call as the caller sees it, and the checker after it.
\* The call also keeps, as history, the retry budget it was given, the result
\* as the scrape left it (<< >> when the call did not come to the scrape) and
\* what _backup_check returned (<< >> for None or when it was not invoked).
check(c, env) ==
  LET raised == [fast |-> env.fast, outcome |-> "raised", result |-> << >>,
                 hit |-> FALSE, contexts |-> 0, backups |-> 0,
                 retry |-> env.retry, scraped |-> << >>, fallback |-> << >>]
  IN IF ~c.browser /\ env.start = "raises"
     THEN [call |-> raised, browser |-> FALSE, cache |-> c.cache]
     ELSE IF CacheHit(c.cache, env.fast)
     THEN [call |-> [fast |-> env.fast, outcome |-> "returned",
                     result |-> c.cache[env.fast], hit |-> TRUE,
                     contexts |-> 0, backups |-> 0, retry |-> env.retry,
                     scraped |-> << >>, fallback |-> << >>],
           browser |-> TRUE, cache |-> c.cache]
     ELSE IF env.context = "raises"
     THEN [call |-> raised, browser |-> TRUE, cache |-> c.cache]
     ELSE
       LET default == DefaultResult(env.fast)
           scraped == IF env.page.kind = "text"
                      THEN Scrape(default, env.page.text)
                      ELSE [default EXCEPT !.error = "error",
                                           !.full_string = ErrorTag]
           cache1 == IF env.page.kind = "text"
                     THEN CacheUpdate(c.cache, scraped) ELSE c.cache
           runs == scraped.pure_score = UnknownMark /\ env.retry > 0
           backup_result == IF runs THEN backup_check(env.backup) ELSE << >>
           replaces == backup_result # << >>
                         /\ backup_result[1].pure_score # UnknownMark
           result == IF replaces THEN backup_result[1] ELSE scraped
           cache2 == IF replaces THEN CacheUpdate(cache1, result) ELSE cache1
       IN IF env.close = "raises"
          THEN [call |-> [raised EXCEPT !.contexts = 1,
                                        !.scraped = << scraped >>],
                browser |-> TRUE, cache |-> cache1]
          ELSE [call |-> [fast |-> env.fast, outcome |-> "returned",
                          result |-> << result >>, hit |-> FALSE,
                          contexts |-> 1,
                          backups |-> IF runs THEN 1 ELSE 0,
                          retry |-> env.retry, scraped |-> << scraped >>,
                          fallback |-> backup_result],
                browser |-> TRUE, cache |-> cache2]

CheckEnvs ==
  [start : {"ok", "raises"}, fast : CheckerIps \cup {NoneIp},
   context : {"ok", "raises"}, page : PageOutcomes, close : {"ok", "raises"},
   backup : CheckerIps \cup {NoneIp}, retry : RetryBudgets]

NoCall == [outcome |-> "none"]

\* IPChecker(): no browser, an empty cache
CheckerInit ==
  /\ EmojiIdle
  /\ pc = "check"
  /\ chk = [browser |-> FALSE, cache |-> [ip \in CheckerIps |-> << >>],
            calls |-> 0, prev |-> NoCall, last |-> NoCall]
  /\ emo = NoEmoji
  /\ look = NoLookup

\* A caller awaits check(); calls on one checker do not overlap
Check ==
  /\ pc = "check"
  /\ chk.calls < MaxChecks
  /\ \E env \in CheckEnvs : \E r \in { check(chk, env) } :
          chk' = [browser |-> r.browser, cache |-> r.cache,
                  calls |-> chk.calls + 1, prev |-> chk.last, last |-> r.call]
  /\ UNCHANGED mainvars
  /\ UNCHANGED << fan, emo, look >>

CheckerNext == Check
CheckerSpec == CheckerInit /\ [][CheckerNext]_vars

\* The last two calls were made one after the other, the first returned a
\* complete result and the fast lookup of the second reports its address
SecondCallSameIp ==
  /\ chk.calls >= 2
  /\ chk.prev.outcome = "returned"
  /\ Complete(chk.prev.result[1])
  /\ chk.last.fast = chk.prev.result[1].ip

\* C15: a second call of check() right after a call that returned a complete
\* result, with the fast lookup reporting that result's address, returns the
\* cached result, equal to the first in every field, opens no browser context
\* and runs no fallback.
C15_CacheIdempotent ==
  SecondCallSameIp =>
     /\ chk.last.outcome = "returned"
     /\ chk.last.hit
     /\ chk.last.result = chk.prev.result
     /\ chk.last.result = chk.cache[chk.last.fast]
     /\ chk.last.contexts = 0
     /\ chk.last.backups = 0

\* The first call scraped a full report in a browser context, the second was
\* served from the cache.
C15_Witness ==
  /\ SecondCallSameIp
  /\ chk.prev.contexts = 1 /\ ~chk.prev.hit
  /\ chk.prev.result[1].pure_score = << "5", "%" >>
  /\ chk.last.hit /\ chk.last.contexts = 0

\* C16 as stated: check() never raises: whatever fails, it returns a result
\* whose full_string is a rendered tag, the error tag when the page failed
\* and no fallback replaced the result.
C16_Original ==
  chk.calls >= 1 =>
     /\ chk.last.outcome = "returned"
     /\ chk.last.result[1].full_string # << >>
     /\ BracketPrefix(chk.last.result[1].full_string)
          = chk.last.result[1].full_string
     /\ chk.last.result[1].error # "None" =>
          chk.last.result[1].full_string = ErrorTag

\* The last call came to the end of the scrape with the purity score unknown
ScrapeLeftUnknown ==
  chk.last.scraped # << >> /\ chk.last.scraped[1].pure_score = UnknownMark
FallbackKnown ==
  chk.last.fallback # << >> /\ chk.last.fallback[1].pure_score # UnknownMark

\* C26 as stated: in every call of check(), _backup_check is invoked exactly
\* when the scrape left the purity score unknown and the retry budget is
\* positive, and at most once; the call's result is the fallback's when the
\* fallback has a purity score and the scraped result otherwise; the call
\* ends.
C26_Original ==
  chk.calls >= 1 =>
     /\ chk.last.backups \in {0, 1}
     /\ chk.last.backups = 1 <=> (ScrapeLeftUnknown /\ chk.last.retry > 0)
     /\ chk.last.outcome \in {"returned", "raised"}
     /\ (chk.last.outcome = "returned" /\ ~chk.last.hit) =>
          chk.last.result = IF FallbackKnown THEN chk.last.fallback
                            ELSE chk.last.scraped

\* The same for the calls that come to line 189, which are the calls that
\* return without a cache hit.
C26_LadderWhenReached ==
  (chk.calls >= 1 /\ chk.last.outcome = "returned" /\ ~chk.last.hit) =>
     /\ chk.last.backups \in {0, 1}
     /\ chk.last.backups = 1 <=> (ScrapeLeftUnknown /\ chk.last.retry > 0)
     /\ chk.last.backups = 0 => chk.last.fallback = << >>
     /\ chk.last.result = IF FallbackKnown THEN chk.last.fallback
                          ELSE chk.last.scraped

CacheWellFormed(cache) ==
  \A ip \in DOMAIN cache :
     cache[ip] # << >> =>
        /\ cache[ip][1].ip = ip
        /\ cache[ip][1].ip # UnknownMark
        /\ cache[ip][1].pure_score # UnknownMark

\* C27: every cache entry sits under the address of its own result, which is
\* known, and has a purity score; a call that returns a result without
\* address or without score leaves the cache as it was; a call that returns a
\* result with both leaves that result under its address and every other
\* entry as it was.
C27_CacheInvariant ==
  /\ [](pc = "check" => CacheWellFormed(chk.cache))
  /\ [][ (pc = "check" /\ chk'.last.outcome = "returned") =>
            IF chk'.last.result[1].ip # UnknownMark
                 /\ chk'.last.result[1].pure_score # UnknownMark
            THEN chk'.cache =
                   [chk.cache EXCEPT ![chk'.last.result[1].ip] = chk'.last.result]
            ELSE chk'.cache = chk.cache ]_vars

\* Two calls: the first stored a scraped result, the second, whose fast
\* lookup failed, came to the same address by the page and overwrote the
\* entry with a different result; and a call that returned without score
\* left the cache as it was.
C27_Witness ==
  /\ chk.calls = 2
  /\ chk.prev.outcome = "returned" /\ Complete(chk.prev.result[1])
  /\ chk.last.outcome = "returned" /\ ~chk.last.hit
  /\ Complete(chk.last.result[1])
  /\ chk.last.result[1].ip = chk.prev.result[1].ip
  /\ chk.last.result # chk.prev.result
  /\ chk.cache[chk.last.result[1].ip] = chk.last.result
====
